---------------------------- MODULE Spec2Model ----------------------------
(***************************************************************************)
(* A model of comp.py (urbs scenario comparison): compare_scenarios,       *)
(* deduplicate_legend and group_hbar_plots.                                *)
(*                                                                         *)
(* Conventions of the model                                                *)
(*   - a Python string on which the code does string work (replace,        *)
(*     basename, sorting) is a tuple of one-character strings;             *)
(*   - a number is an exact rational [n |-> numerator, d |-> denominator]; *)
(*     NaN is the record with d = 0.  Floating-point rounding is not       *)
(*     modelled;                                                           *)
(*   - a DataFrame is [idx, cols, val]: the row keys in order, the column  *)
(*     labels in order, and for each row position a function from column   *)
(*     label to number.                                                    *)
(***************************************************************************)
EXTENDS Integers, Sequences, FiniteSets, TLC

VARIABLES
    \* compare_scenarios
    input_files,    \* the list as the caller passed it (never changed)
    fs,             \* the workbooks on disk: path -> workbook
    result_files,   \* the argument result_files (reordered in place)
    scenario_names,
    pc,             \* position in compare_scenarios
    rf_i,           \* position of the READ loop in result_files
    costs, esums, caps,
    spent, earnt, created, consumed, sto_sums,
    legends,        \* what deduplicate_legend returned for ax0, ax1, ax2
    bar_y,          \* the patch offsets group_hbar_plots set on ax1, ax2
    written,        \* the output files written so far, in order
    err,            \* the exception that ended the run, or "none"
    \* deduplicate_legend called on its own
    handles, labels, legend_ret,
    \* group_hbar_plots called on its own
    ax, group_size, inner_sep, hbar_ret

cmpVars == <<input_files, fs, result_files, scenario_names, pc, rf_i,
             costs, esums, caps, spent, earnt, created, consumed, sto_sums,
             legends, bar_y, written, err>>
legVars == <<handles, labels, legend_ret>>
barVars == <<ax, group_size, inner_sep, hbar_ret>>
vars == <<cmpVars, legVars, barVars>>

---------------------------------------------------------------------------
(* Bounds of the model *)

\* longest list of result files passed to compare_scenarios
MaxFiles == 3
\* cost values of a workbook range over -MaxCost .. MaxCost
MaxCost == 1
\* retrieved-storage values of a workbook range over 0 .. MaxSto (x 500)
MaxSto == 1
\* longest handles / labels list passed to deduplicate_legend
MaxLegend == 3
\* number of distinct legend handles
MaxHandle == 2
\* lengths are measured in 1/(4*Res) of a row
Res == 1
\* most patches (rows) per handle, most handles, largest group_size
MaxRows == 5
MaxCols == 2
MaxGroup == 3

---------------------------------------------------------------------------
(* Strings *)

\* the characters of the model in code point order (str comparison)
Chars == <<" ", ".", "/", "0", "1", "2", "3", "4", "5", "6", "7", "8", "9",
           "A", "B", "C", "D", "E", "F", "G", "H", "I", "J", "K", "L", "M",
           "N", "O", "P", "Q", "R", "S", "T", "U", "V", "W", "X", "Y", "Z",
           "_",
           "a", "b", "c", "d", "e", "f", "g", "h", "i", "j", "k", "l", "m",
           "n", "o", "p", "q", "r", "s", "t", "u", "v", "w", "x", "y", "z">>

Ord(c) == CHOOSE i \in DOMAIN Chars : Chars[i] = c

SeqRange(s) == {s[i] : i \in DOMAIN s}

\* str.replace(old, new): leftmost non-overlapping occurrences, old non-empty
RECURSIVE PyReplace(_, _, _)
PyReplace(s, old, new) ==
    IF Len(s) < Len(old) THEN s
    ELSE IF SubSeq(s, 1, Len(old)) = old
         THEN new \o PyReplace(SubSeq(s, Len(old) + 1, Len(s)), old, new)
         ELSE <<s[1]>> \o PyReplace(Tail(s), old, new)

\* os.path.basename: what follows the last "/"
RECURSIVE Basename(_)
Basename(p) ==
    IF \E i \in DOMAIN p : p[i] = "/"
    THEN Basename(Tail(p))
    ELSE p

\* lexicographic order of integer sequences (a proper prefix is smaller)
RECURSIVE SeqLess(_, _)
SeqLess(a, b) ==
    IF b = <<>> THEN FALSE
    ELSE IF a = <<>> THEN TRUE
    ELSE IF a[1] # b[1] THEN a[1] < b[1]
    ELSE SeqLess(Tail(a), Tail(b))

\* the sort key of a string, ascending: its code points
AscKey(s) == [i \in DOMAIN s |-> Ord(s[i])]
\* ... closed with 0, so that a second component can follow
AscKey0(s) == AscKey(s) \o <<0>>
\* the sort key of a string, descending
DescKey(s) == [i \in DOMAIN s |-> 0 - Ord(s[i])] \o <<1>>

\* Python's < on str
StrLess(a, b) == SeqLess(AscKey(a), AscKey(b))

\* sorted(): a stable sort of records [k |-> key, x |-> item] by key
RECURSIVE Insert(_, _)
Insert(e, s) ==
    IF s = <<>> THEN <<e>>
    ELSE IF SeqLess(e.k, s[1].k) THEN <<e>> \o s
    ELSE <<s[1]>> \o Insert(e, Tail(s))

RECURSIVE SortByKey(_)
SortByKey(s) ==
    IF s = <<>> THEN <<>>
    ELSE Insert(s[Len(s)], SortByKey(SubSeq(s, 1, Len(s) - 1)))

---------------------------------------------------------------------------
(* Numbers *)

R(k) == [n |-> k, d |-> 1]
NaN == [n |-> 0, d |-> 0]
IsNaN(a) == a.d = 0

RAdd(a, b) ==
    IF a.d = b.d THEN [n |-> a.n + b.n, d |-> a.d]
    ELSE [n |-> a.n * b.d + b.n * a.d, d |-> a.d * b.d]
RNeg(a) == [n |-> 0 - a.n, d |-> a.d]
\* a / 1e3
RDiv1000(a) == [n |-> a.n, d |-> a.d * 1000]
\* comparisons; every comparison with NaN is false
RLess(a, b) == ~IsNaN(a) /\ ~IsNaN(b) /\ a.n * b.d < b.n * a.d
REq(a, b) == ~IsNaN(a) /\ ~IsNaN(b) /\ a.n * b.d = b.n * a.d

\* 0.1 of lines 163-164
Threshold == [n |-> 1, d |-> 10]

---------------------------------------------------------------------------
(* deduplicate_legend *)

Min(a, b) == IF a < b THEN a ELSE b

\* lines 52-57: keep the first (handle, label) pair of every label
RECURSIVE DedupLoop(_, _, _, _, _)
DedupLoop(hs, ls, i, new_handles, new_labels) ==
    IF i > Min(Len(hs), Len(ls))
    THEN [handles |-> new_handles, labels |-> new_labels]
    ELSE IF ls[i] \in SeqRange(new_labels)
         THEN DedupLoop(hs, ls, i + 1, new_handles, new_labels)
         ELSE DedupLoop(hs, ls, i + 1,
                        Append(new_handles, hs[i]), Append(new_labels, ls[i]))

\* a faulty variant: the pairs zipped as (handle, label), so sorted by handle
SortedPairs_ByHandle(new_labels, new_handles) ==
    LET pairs == [i \in 1 .. Min(Len(new_labels), Len(new_handles)) |->
                    [k |-> <<new_handles[i]>> \o AscKey(new_labels[i]),
                     x |-> <<new_labels[i], new_handles[i]>>]]
        s == SortByKey(pairs)
    IN [i \in DOMAIN s |-> s[i].x]

\* sorted(zip(new_labels, new_handles)): tuples compare by label, then handle
SortedPairs(new_labels, new_handles) ==
    LET pairs == [i \in 1 .. Min(Len(new_labels), Len(new_handles)) |->
                    [k |-> AscKey0(new_labels[i]) \o <<new_handles[i]>>,
                     x |-> <<new_labels[i], new_handles[i]>>]]
        s == SortByKey(pairs)
    IN [i \in DOMAIN s |-> s[i].x]

\* zip(*pairs): no tuple for no pair, else one tuple per component
ZipStar(pairs) ==
    IF pairs = <<>> THEN <<>>
    ELSE <<[i \in DOMAIN pairs |-> pairs[i][1]],
           [i \in DOMAIN pairs |-> pairs[i][2]]>>

\* lines 52-60; the two-target unpacking of line 59 needs exactly two tuples
DeduplicateLegend(hs, ls) ==
    LET d == DedupLoop(hs, ls, 1, <<>>, <<>>)
        z == ZipStar(SortedPairs(d.labels, d.handles))
    IN IF Len(z) # 2
       THEN [err |-> "ValueError", handles |-> <<>>, labels |-> <<>>]
       ELSE [err |-> "none", handles |-> z[2], labels |-> z[1]]

---------------------------------------------------------------------------
(* group_hbar_plots *)

\* one row (1.0), in the unit of bar_height and inner_sep
Q == 4 * Res

NoSep == 0 - 1

\* lines 72-73: None and 0 are both "not inner_sep"
InnerSep(sep, bar_height) ==
    IF sep = NoSep \/ sep = 0 THEN (Q - bar_height) \div 2 ELSE sep

\* a faulty variant: the group's own place (group_number * group_size) left out
GroupOffset2_NoGroup(group_number, gsize, bar_height, sep) ==
    (gsize - 1) * (Q - sep) - gsize * bar_height

\* lines 79-81, times 2 (the unit is 1/(2*Q))
GroupOffset2(group_number, gsize, bar_height, sep) ==
    2 * group_number * gsize * Q + (gsize - 1) * (Q - sep) - gsize * bar_height

\* lines 77-84: what patch.set_y receives for this row, times 2
PatchY2(row, gsize, bar_height, sep) ==
    LET group_number == row \div gsize
        row_within_group == row % gsize
    IN 2 * row_within_group * (bar_height + sep)
         + GroupOffset2(group_number, gsize, bar_height, sep)

\* lines 69-84 on an axis [bar_height, patches]: patches[c][r+1] is the
\* offset (times 2) of row r of handle c
GroupHbarPlots(a, gsize, sep) ==
    IF a.patches = <<>>
    THEN [err |-> "IndexError", ax |-> a]
    ELSE LET s == InnerSep(sep, a.bar_height)
         IN [err |-> "none",
             ax |-> [a EXCEPT !.patches =
                       [c \in DOMAIN a.patches |->
                          [r \in DOMAIN a.patches[c] |->
                             PatchY2(r - 1, gsize, a.bar_height, s)]]]]

\* an axis as pandas draws it: row r of every handle at r - bar_height / 2
DrawnAxis(bar_height, ncols, nrows) ==
    [bar_height |-> bar_height,
     patches |-> [c \in 1 .. ncols |->
                    [r \in 1 .. nrows |-> 2 * Q * (r - 1) - bar_height]]]

---------------------------------------------------------------------------
(* Labels *)

Str_xlsx == <<".", "x", "l", "s", "x">>
Str_scenario_ == <<"s", "c", "e", "n", "a", "r", "i", "o", " ">>
Str_Campus == <<".", "C", "a", "m", "p", "u", "s">>
Str_base == <<"b", "a", "s", "e">>
Str_altA == <<"a", "l", "t", "A">>
Str_s_base == <<"s", " ", "b", "a", "s", "e">>
Str_s_altA == <<"s", " ", "a", "l", "t", "A">>
Str_Elec == <<"E", "l", "e", "c">>
Str_Heat == <<"H", "e", "a", "t">>
Str_CO2 == <<"C", "O", "2">>
Str_Invest == <<"I", "n", "v", "e", "s", "t">>
Str_Revenue == <<"R", "e", "v", "e", "n", "u", "e">>
Str_Fixed == <<"F", "i", "x", "e", "d">>
Str_Fuel == <<"F", "u", "e", "l">>
Str_PV == <<"P", "V">>
Str_Demand == <<"D", "e", "m", "a", "n", "d">>
Str_Chiller == <<"C", "h", "i", "l", "l", "e", "r">>
Str_Battery == <<"B", "a", "t", "t", "e", "r", "y">>
Str_Reservoir == <<"R", "e", "s", "e", "r", "v", "o", "i", "r">>

\* result files: with the prefix the code strips, with the prefix "s_", and
\* one in a folder
File_scenario_base == <<"s", "c", "e", "n", "a", "r", "i", "o", "_">> \o Str_base \o Str_xlsx
File_scenario_altA == <<"s", "c", "e", "n", "a", "r", "i", "o", "_">> \o Str_altA \o Str_xlsx
File_s_base == <<"s", "_">> \o Str_base \o Str_xlsx
File_s_altA == <<"s", "_">> \o Str_altA \o Str_xlsx
File_r_scenario_base == <<"r", "/">> \o File_scenario_base

Paths == {File_scenario_base, File_scenario_altA, File_s_base, File_s_altA,
          File_r_scenario_base}

\* a faulty variant: the prefix dropped before "_" has become " "
ScenarioName_PrefixFirst(rf) ==
    PyReplace(PyReplace(PyReplace(Basename(rf), Str_scenario_, <<>>),
                        <<"_">>, <<" ">>),
              Str_xlsx, <<>>)

\* lines 105-108: the scenario name of one result file
ScenarioName(rf) ==
    PyReplace(PyReplace(PyReplace(Basename(rf), <<"_">>, <<" ">>),
                        Str_xlsx, <<>>),
              Str_scenario_, <<>>)

\* lines 105-109
ScenarioNames(files) == [i \in DOMAIN files |-> ScenarioName(files[i])]

\* list.index(x): the first position of x, 0 for ValueError
RECURSIVE ListIndex(_, _, _)
ListIndex(s, x, i) ==
    IF i > Len(s) THEN 0
    ELSE IF s[i] = x THEN i
    ELSE ListIndex(s, x, i + 1)

\* a faulty variant: the base scenario swapped with the first one
PopInsertFirst_Swap(s, i) ==
    [k \in DOMAIN s |-> IF k = 1 THEN s[i] ELSE IF k = i THEN s[1] ELSE s[k]]

\* s.insert(0, s.pop(i))
PopInsertFirst(s, i) ==
    <<s[i]>> \o SubSeq(s, 1, i - 1) \o SubSeq(s, i + 1, Len(s))

---------------------------------------------------------------------------
(* Workbooks: what urbs.report wrote for one scenario *)

Str_Retrieved == <<"R", "e", "t", "r", "i", "e", "v", "e", "d">>

\* the columns of sheet 'Commodity sums': commodity.site
EsumCols == <<Str_Elec \o Str_Campus, Str_Heat \o Str_Campus,
              Str_CO2 \o Str_Campus>>

\* one row of the sheet; index is "NaN" where the sheet leaves it blank
EsumRow(index, pro, v) ==
    [index |-> index, pro |-> pro,
     val |-> [c \in SeqRange(EsumCols) |->
                v[CHOOSE j \in DOMAIN EsumCols : EsumCols[j] = c]]]

\* the sheet as written: the first column names the direction only on the
\* first row of each run of rows
EsumSheet(pv, demand, chiller, retrieved) ==
    [cols |-> EsumCols,
     rows |-> <<EsumRow("Created", Str_PV, pv),
                EsumRow("Consumed", Str_Demand, demand),
                EsumRow("NaN", Str_Chiller, chiller),
                EsumRow("Storage", Str_Retrieved, retrieved)>>]

Workbook(cost, esum) ==
    [exists |-> TRUE,
     sheets |-> {"Costs", "Commodity sums", "Process caps"},
     cost |-> cost,
     esum |-> esum,
     cap |-> [cols |-> {"Total"}, sites |-> {"Campus"},
              total |-> (Str_PV :> R(10))]]

R3(a, b, c) == <<R(a), R(b), R(c)>>

DefaultEsum ==
    EsumSheet(R3(5000, 200, 30), R3(4000, 3000, 0), R3(800, 0, 0),
              R3(1500, 700, 0))

\* the workbooks of the example: base costs Invest 100, any other scenario
\* Invest 150 and Revenue -20
DefaultWorkbook(rf) ==
    Workbook(IF Basename(rf) \in {Basename(File_scenario_base), Basename(File_s_base)}
             THEN (Str_Invest :> R(100))
             ELSE (Str_Invest :> R(150)) @@ (Str_Revenue :> R(0 - 20)),
             DefaultEsum)

\* the ways reading a workbook fails
Defects == {"nofile", "nosheet_costs", "nosheet_esums", "nosheet_caps",
            "nocol_total", "norow_campus"}

Broken(wb, defect) ==
    CASE defect = "nofile" -> [wb EXCEPT !.exists = FALSE]
      [] defect = "nosheet_costs" -> [wb EXCEPT !.sheets = @ \ {"Costs"}]
      [] defect = "nosheet_esums" -> [wb EXCEPT !.sheets = @ \ {"Commodity sums"}]
      [] defect = "nosheet_caps" -> [wb EXCEPT !.sheets = @ \ {"Process caps"}]
      [] defect = "nocol_total" -> [wb EXCEPT !.cap.cols = {}]
      [] defect = "norow_campus" -> [wb EXCEPT !.cap.sites = {}]

---------------------------------------------------------------------------
(* READ: lines 125-145 *)

\* a faulty variant: only a missing file or sheet fails, a missing 'Total'
\* column or 'Campus' row is passed over
ReadError_SheetsOnly(wb) ==
    IF ~wb.exists THEN "IOError"
    ELSE IF "Costs" \notin wb.sheets THEN "XLRDError"
    ELSE IF "Commodity sums" \notin wb.sheets THEN "XLRDError"
    ELSE IF "Process caps" \notin wb.sheets THEN "XLRDError"
    ELSE "none"

\* lines 126-129 and 136: the exception reading this workbook raises
ReadError(wb) ==
    IF ~wb.exists THEN "IOError"
    ELSE IF "Costs" \notin wb.sheets THEN "XLRDError"
    ELSE IF "Commodity sums" \notin wb.sheets THEN "XLRDError"
    ELSE IF "Process caps" \notin wb.sheets THEN "XLRDError"
    ELSE IF "Total" \notin wb.cap.cols THEN "KeyError"
    ELSE IF "Campus" \notin wb.cap.sites THEN "KeyError"
    ELSE "none"

\* lines 132-134: forward-fill the blanks, then index by (index, pro)
RECURSIVE FFill(_, _)
FFill(rows, i) ==
    IF i > Len(rows) THEN rows
    ELSE IF i = 1 THEN FFill(rows, 2)
    ELSE LET prev == rows[i - 1]
             cur == rows[i]
             new == [index |-> IF cur.index = "NaN" THEN prev.index ELSE cur.index,
                     pro |-> cur.pro,
                     val |-> [c \in DOMAIN cur.val |->
                                IF IsNaN(cur.val[c]) THEN prev.val[c] ELSE cur.val[c]]]
         IN FFill([rows EXCEPT ![i] = new], i + 1)

RepairIndex(esum) == [esum EXCEPT !.rows = FFill(@, 1)]

RECURSIVE Flatten(_)
Flatten(ss) == IF ss = <<>> THEN <<>> ELSE ss[1] \o Flatten(Tail(ss))

RECURSIVE Unique(_)
Unique(s) ==
    IF s = <<>> THEN <<>>
    ELSE LET u == Unique(SubSeq(s, 1, Len(s) - 1))
         IN IF s[Len(s)] \in SeqRange(u) THEN u ELSE Append(u, s[Len(s)])

\* lines 143, 145: pd.concat(series, axis=1, keys=...), one column for each
\* scenario over the union of the row labels
ConcatColumns(list, keys) ==
    LET all == UNION {DOMAIN list[i] : i \in DOMAIN list}
    IN [i \in DOMAIN list |->
          [scen |-> keys[i],
           v |-> [c \in all |-> IF c \in DOMAIN list[i] THEN list[i][c] ELSE NaN]]]

RowKey(row) == <<row.index, row.pro>>

SheetCell(sheet, key, col) ==
    LET hits == {k \in DOMAIN sheet.rows : RowKey(sheet.rows[k]) = key}
    IN IF hits = {} THEN NaN ELSE sheet.rows[CHOOSE k \in hits : TRUE].val[col]

\* line 144: pd.concat(frames, axis=1, keys=...): the columns (scenario,
\* commodity.site) of every scenario in turn, over the union of the rows
ConcatFrames(list, keys) ==
    LET rowkeys == Unique(Flatten([i \in DOMAIN list |->
                     [k \in DOMAIN list[i].rows |-> RowKey(list[i].rows[k])]]))
    IN [rows |-> rowkeys,
        cols |-> Flatten([i \in DOMAIN list |->
                   [j \in DOMAIN list[i].cols |->
                      [scen |-> keys[i],
                       col |-> list[i].cols[j],
                       v |-> [key \in SeqRange(rowkeys) |->
                                SheetCell(list[i], key, list[i].cols[j])]]]])]

---------------------------------------------------------------------------
(* ANALYSE: lines 153-192 *)

RECURSIVE SetToSeq(_)
SetToSeq(S) ==
    IF S = {} THEN <<>>
    ELSE LET x == CHOOSE x \in S : TRUE IN <<x>> \o SetToSeq(S \ {x})

\* the labels of a set in ascending order
SortedLabels(S) ==
    LET q == SetToSeq(S)
        s == SortByKey([i \in DOMAIN q |-> [k |-> AscKey(q[i]), x |-> q[i]]])
    IN [i \in DOMAIN s |-> s[i].x]

\* DataFrame.sum() of one column: NaN is skipped
RECURSIVE SumFrom(_, _, _)
SumFrom(f, c, i) ==
    IF i > Len(f.idx) THEN R(0)
    ELSE IF IsNaN(f.val[i][c]) THEN SumFrom(f, c, i + 1)
    ELSE RAdd(f.val[i][c], SumFrom(f, c, i + 1))

ColSum(f, c) == SumFrom(f, c, 1)

\* frame.loc[:, mask]
SelectCols(f, keep) ==
    LET In(c) == c \in keep
    IN [idx |-> f.idx,
        cols |-> SelectSeq(f.cols, In),
        val |-> [i \in DOMAIN f.idx |->
                   [c \in SeqRange(f.cols) \cap keep |-> f.val[i][c]]]]

\* - frame
NegateCells(f) ==
    [f EXCEPT !.val = [i \in DOMAIN f.idx |->
                         [c \in DOMAIN f.val[i] |-> RNeg(f.val[i][c])]]]

\* frame / 1e3
ScaleCells(f) ==
    [f EXCEPT !.val = [i \in DOMAIN f.idx |->
                         [c \in DOMAIN f.val[i] |-> RDiv1000(f.val[i][c])]]]

\* frame.loc[rows]
TakeRows(f, order) ==
    [idx |-> [j \in DOMAIN order |-> f.idx[order[j]]],
     cols |-> f.cols,
     val |-> [j \in DOMAIN order |-> f.val[order[j]]]]

\* sort_index() on the two-level row index; keys[i] is the sort key of row i
SortRows(f, keys) ==
    LET s == SortByKey([i \in DOMAIN f.idx |-> [k |-> keys[i], x |-> i]])
    IN TakeRows(f, [j \in DOMAIN s |-> s[j].x])

AscAsc(key) == AscKey0(key[1]) \o AscKey(key[2])
\* ascending=[False, True]
DescAsc(key) == DescKey(key[1]) \o AscKey(key[2])

\* sort_index()
SortIndexAscAsc(f) == SortRows(f, [i \in DOMAIN f.idx |-> AscAsc(f.idx[i])])
\* sort_index(ascending=[False, True])
SortIndexDescAsc(f) == SortRows(f, [i \in DOMAIN f.idx |-> DescAsc(f.idx[i])])

\* lines 153-155: scenarios as rows, the cost types sorted as columns
CostFrame(merged) ==
    [idx |-> [i \in DOMAIN merged |-> merged[i].scen],
     cols |-> SortedLabels(DOMAIN merged[1].v),
     val |-> [i \in DOMAIN merged |-> merged[i].v]]

\* a faulty variant: >= 0
IsSpent_OrZero(sum) == ~RLess(sum, R(0))

\* line 156
IsSpent(sum) == RLess(R(0), sum)
\* line 157
IsEarnt(sum) == RLess(sum, R(0))

Spent(f) == SelectCols(f, {c \in SeqRange(f.cols) : IsSpent(ColSum(f, c))})
Earnt(f) == SelectCols(f, {c \in SeqRange(f.cols) : IsEarnt(ColSum(f, c))})

\* rename(...=lambda x: x.replace('.Campus', ''))
Rename(x) == PyReplace(x, Str_Campus, <<>>)

\* lines 160-161: esums.loc[direction].rename(columns=...).T: a row for each
\* (scenario, commodity), a column for each process of the direction
Direction(merged, dir) ==
    LET In(key) == key[1] = dir
        sel == SelectSeq(merged.rows, In)
        pros == [j \in DOMAIN sel |-> sel[j][2]]
    IN [idx |-> [i \in DOMAIN merged.cols |->
                   <<Rename(merged.cols[i].scen), Rename(merged.cols[i].col)>>],
        cols |-> pros,
        val |-> [i \in DOMAIN merged.cols |->
                   [p \in SeqRange(pros) |-> merged.cols[i].v[<<dir, p>>]]]]

\* a faulty variant: >= 0.1
KeepCreated_OrEqual(sum) == ~RLess(sum, Threshold)

\* a faulty variant: the test of line 163 copied to line 164
KeepConsumed_AsCreated(sum) == RLess(Threshold, sum)

\* line 163: the test on created.sum()
KeepCreated(sum) == RLess(Threshold, sum)
\* line 164: the test on consumed.sum()
KeepConsumed(sum) == RLess(sum, RNeg(Threshold))

\* line 160 before the filter
CreatedRaw(merged) == Direction(merged, "Created")
\* line 161: Demand dropped, then the sign flipped
ConsumedRaw(merged) ==
    LET c == Direction(merged, "Consumed")
    IN NegateCells(SelectCols(c, SeqRange(c.cols) \ {Str_Demand}))

\* lines 160, 163, 166
CreatedView(merged) ==
    LET c == CreatedRaw(merged)
        kept == SelectCols(c, {p \in SeqRange(c.cols) : KeepCreated(ColSum(c, p))})
    IN SortIndexDescAsc(ScaleCells(kept))

\* lines 161, 164, 167
ConsumedView(merged) ==
    LET c == ConsumedRaw(merged)
        kept == SelectCols(c, {p \in SeqRange(c.cols) : KeepConsumed(ColSum(c, p))})
    IN SortIndexDescAsc(ScaleCells(kept))

\* a faulty variant: the two columns exchanged
SplitCell_Swapped(key, col, v) ==
    IF key[2] = Str_Elec /\ col = Str_Battery THEN R(0)
    ELSE IF key[2] = Str_Heat /\ col = Str_Reservoir THEN R(0)
    ELSE v

\* lines 186-187: the cell (row key, column) after the assignments
SplitCell(key, col, v) ==
    IF key[2] = Str_Elec /\ col = Str_Reservoir THEN R(0)
    ELSE IF key[2] = Str_Heat /\ col = Str_Battery THEN R(0)
    ELSE v

\* lines 169-188
StorageView(merged) ==
    LET retrieved == <<"Storage", Str_Retrieved>>
        series == [idx |-> [i \in DOMAIN merged.cols |->
                              <<merged.cols[i].scen, merged.cols[i].col>>],
                   cols |-> <<Str_Battery>>,
                   val |-> [i \in DOMAIN merged.cols |->
                              (Str_Battery :> merged.cols[i].v[retrieved])]]
        sorted == SortIndexAscAsc(series)
        renamed == [sorted EXCEPT !.idx = [i \in DOMAIN @ |->
                                            <<Rename(@[i][1]), Rename(@[i][2])>>]]
        scaled == ScaleCells(renamed)
        two == [idx |-> scaled.idx,
                cols |-> <<Str_Battery, Str_Reservoir>>,
                val |-> [i \in DOMAIN scaled.idx |->
                           [c \in {Str_Battery, Str_Reservoir} |->
                              scaled.val[i][Str_Battery]]]]
        again == SortIndexAscAsc(two)
        split == [again EXCEPT !.val = [i \in DOMAIN again.idx |->
                    [c \in DOMAIN again.val[i] |->
                       SplitCell(again.idx[i], c, again.val[i][c])]]]
    IN SortIndexDescAsc(split)

\* line 192: df.drop('CO2', level=1)
DropCO2(f) ==
    LET keep == {i \in DOMAIN f.idx : f.idx[i][2] # Str_CO2}
        In(i) == i \in keep
    IN TakeRows(f, SelectSeq([i \in DOMAIN f.idx |-> i], In))

---------------------------------------------------------------------------
(* PLOT: lines 196-263 *)

\* the legend entries of an axis: one handle for each plotted column
AxisLabels(first, second) == first.cols \o second.cols

\* 0.5: width=.5 on ax1 (lines 211, 215), the default bar width on ax2
BarWidth == 2 * Res

\* lines 201, 210: a frame without columns cannot be plotted; lines 203 and
\* 212 guard the second frame of an axis only
PlotError == IF spent.cols = <<>> \/ created.cols = <<>> THEN "TypeError" ELSE "none"

\* lines 223-225: group_hbar_plots(ax, 3) on ax1 and ax2
GroupedAxes ==
    <<GroupHbarPlots(DrawnAxis(BarWidth, Len(AxisLabels(created, consumed)),
                               Len(created.idx)), 3, NoSep),
      GroupHbarPlots(DrawnAxis(BarWidth, Len(sto_sums.cols), Len(sto_sums.idx)),
                     3, NoSep)>>

\* line 253 on ax0, ax1, ax2
Legends ==
    LET Of(ls) == DeduplicateLegend([i \in DOMAIN ls |-> i], ls)
    IN <<Of(AxisLabels(spent, earnt)), Of(AxisLabels(created, consumed)),
         Of(sto_sums.cols)>>

---------------------------------------------------------------------------
(* The inputs of compare_scenarios *)

NoFrame == [idx |-> <<>>, cols |-> <<>>, val |-> <<>>]

\* the workbooks of these result files, all sound
DefaultFs(files) == [p \in SeqRange(files) |-> DefaultWorkbook(p)]

\* the lists of distinct result files
FileLists ==
    UNION {{s \in [1 .. n -> Paths] : \A i, j \in 1 .. n : i # j => s[i] # s[j]} :
           n \in 0 .. MaxFiles}

\* any list of result files, every workbook sound or one of them broken
NameInputs ==
    {[files |-> s, fs |-> DefaultFs(s)] : s \in FileLists}
    \cup UNION {{[files |-> s, fs |-> [DefaultFs(s) EXCEPT ![s[k]] = Broken(@, d)]] :
                 k \in DOMAIN s, d \in Defects} : s \in FileLists}

\* the two scenarios whose data vary, as the command line passes them
DataFiles == <<File_scenario_altA, File_scenario_base>>

DataInput(wb1, wb2) ==
    [files |-> DataFiles,
     fs |-> (DataFiles[1] :> wb1) @@ (DataFiles[2] :> wb2)]

\* cost sheets over Invest and Revenue; MaxCost + 1 stands for a cost type
\* the sheet does not list
CostSheets ==
    {[c \in {c \in DOMAIN g : g[c] <= MaxCost} |-> R(g[c])] :
       g \in [{Str_Invest, Str_Revenue} -> (0 - MaxCost) .. (MaxCost + 1)]}

CostInputs ==
    {DataInput(Workbook(c1, DefaultEsum), Workbook(c2, DefaultEsum)) :
       c1, c2 \in CostSheets}

\* energy sums around the threshold: two of them add up to exactly 0.1, to
\* 0.1001, to their negatives and to values between
EVals == {[n |-> k, d |-> 20000] : k \in {0 - 1001, 0 - 1000, 0, 1000, 1001}}
EZero == [n |-> 0, d |-> 20000]

EnergySheet(pv, chiller) ==
    EsumSheet(<<pv, EZero, EZero>>, R3(4000, 3000, 0), <<chiller, EZero, EZero>>,
              R3(1500, 700, 0))

EnergyInputs ==
    {DataInput(Workbook(Str_Invest :> R(100), EnergySheet(p1, c1)),
               Workbook(Str_Invest :> R(150), EnergySheet(p2, c2))) :
       p1, c1, p2, c2 \in EVals}

StoVals == {R(500 * k) : k \in 0 .. MaxSto}

StorageSheet(e, h, c) ==
    EsumSheet(R3(5000, 200, 30), R3(4000, 3000, 0), R3(800, 0, 0), <<e, h, c>>)

StorageInputs ==
    {DataInput(Workbook(Str_Invest :> R(100), StorageSheet(e1, h1, c1)),
               Workbook(Str_Invest :> R(150), StorageSheet(e2, h2, c2))) :
       e1, h1, c1, e2, h2, c2 \in StoVals}

Inputs == NameInputs \cup CostInputs \cup EnergyInputs \cup StorageInputs

---------------------------------------------------------------------------
(* The variables a specification does not use *)

IdleCompare ==
    /\ input_files = <<>> /\ fs = <<>> /\ result_files = <<>>
    /\ scenario_names = <<>> /\ pc = "idle" /\ rf_i = 0
    /\ costs = <<>> /\ esums = <<>> /\ caps = <<>>
    /\ spent = NoFrame /\ earnt = NoFrame /\ created = NoFrame
    /\ consumed = NoFrame /\ sto_sums = NoFrame
    /\ legends = <<>> /\ bar_y = <<>> /\ written = <<>> /\ err = "none"

\* what deduplicate_legend has returned, before the call
NoLegend(state) == [err |-> state, handles |-> <<>>, labels |-> <<>>]

IdleLegend == handles = <<>> /\ labels = <<>> /\ legend_ret = NoLegend("idle")

IdleBars == ax = DrawnAxis(0, 0, 0) /\ group_size = 0 /\ inner_sep = 0 /\ hbar_ret = "idle"

---------------------------------------------------------------------------
(* compare_scenarios *)

Init ==
    /\ \E in \in Inputs :
         /\ input_files = in.files
         /\ result_files = in.files
         /\ fs = in.fs
    /\ scenario_names = <<>> /\ pc = "names" /\ rf_i = 0
    /\ costs = <<>> /\ esums = <<>> /\ caps = <<>>
    /\ spent = NoFrame /\ earnt = NoFrame /\ created = NoFrame
    /\ consumed = NoFrame /\ sto_sums = NoFrame
    /\ legends = <<>> /\ bar_y = <<>> /\ written = <<>> /\ err = "none"
    /\ IdleLegend /\ IdleBars

\* an exception leaves compare_scenarios
Raise(e) ==
    /\ pc' = "aborted"
    /\ err' = e

\* lines 105-109
DeriveNames ==
    /\ pc = "names"
    /\ scenario_names' = ScenarioNames(result_files)
    /\ pc' = "reorder"
    /\ UNCHANGED <<input_files, fs, result_files, rf_i, costs, esums, caps,
                   spent, earnt, created, consumed, sto_sums, legends, bar_y,
                   written, err>>

\* lines 112-121
ReorderBase ==
    /\ pc = "reorder"
    /\ LET base_scenario == ListIndex(scenario_names, Str_base, 1)
       IN IF base_scenario = 0
          THEN UNCHANGED <<result_files, scenario_names>>
          ELSE /\ result_files' = PopInsertFirst(result_files, base_scenario)
               /\ scenario_names' = PopInsertFirst(scenario_names, base_scenario)
    /\ pc' = "read"
    /\ rf_i' = 1
    /\ costs' = <<>> /\ esums' = <<>> /\ caps' = <<>>
    /\ UNCHANGED <<input_files, fs, spent, earnt, created, consumed, sto_sums,
                   legends, bar_y, written, err>>

\* lines 125-140: one pass of the loop
ReadWorkbook ==
    /\ pc = "read"
    /\ rf_i <= Len(result_files)
    /\ LET wb == fs[result_files[rf_i]]
           e == ReadError(wb)
       IN IF e # "none"
          THEN /\ Raise(e)
               /\ UNCHANGED <<rf_i, costs, esums, caps>>
          ELSE /\ costs' = Append(costs, wb.cost)
               /\ esums' = Append(esums, RepairIndex(wb.esum))
               /\ caps' = Append(caps, wb.cap.total)
               /\ rf_i' = rf_i + 1
               /\ UNCHANGED <<pc, err>>
    /\ UNCHANGED <<input_files, fs, result_files, scenario_names, spent, earnt,
                   created, consumed, sto_sums, legends, bar_y, written>>

\* lines 143-145; pd.concat raises ValueError on an empty list
Merge ==
    /\ pc = "read"
    /\ rf_i > Len(result_files)
    /\ IF costs = <<>>
       THEN /\ Raise("ValueError")
            /\ UNCHANGED <<costs, esums, caps>>
       ELSE /\ costs' = ConcatColumns(costs, scenario_names)
            /\ esums' = ConcatFrames(esums, scenario_names)
            /\ caps' = ConcatColumns(caps, scenario_names)
            /\ pc' = "costs"
            /\ UNCHANGED err
    /\ UNCHANGED <<input_files, fs, result_files, scenario_names, rf_i, spent,
                   earnt, created, consumed, sto_sums, legends, bar_y, written>>

\* lines 153-157
AnalyseCosts ==
    /\ pc = "costs"
    /\ costs' = CostFrame(costs)
    /\ spent' = Spent(CostFrame(costs))
    /\ earnt' = Earnt(CostFrame(costs))
    /\ pc' = "energy"
    /\ UNCHANGED <<input_files, fs, result_files, scenario_names, rf_i, esums,
                   caps, created, consumed, sto_sums, legends, bar_y, written,
                   err>>

\* lines 160-167
AnalyseEnergy ==
    /\ pc = "energy"
    /\ created' = CreatedView(esums)
    /\ consumed' = ConsumedView(esums)
    /\ pc' = "storage"
    /\ UNCHANGED <<input_files, fs, result_files, scenario_names, rf_i, costs,
                   esums, caps, spent, earnt, sto_sums, legends, bar_y, written,
                   err>>

\* lines 169-188
SplitStorage ==
    /\ pc = "storage"
    /\ sto_sums' = StorageView(esums)
    /\ pc' = "co2"
    /\ UNCHANGED <<input_files, fs, result_files, scenario_names, rf_i, costs,
                   esums, caps, spent, earnt, created, consumed, legends, bar_y,
                   written, err>>

\* lines 191-192
RemoveCO2 ==
    /\ pc = "co2"
    /\ created' = DropCO2(created)
    /\ consumed' = DropCO2(consumed)
    /\ sto_sums' = DropCO2(sto_sums)
    /\ pc' = "plot"
    /\ UNCHANGED <<input_files, fs, result_files, scenario_names, rf_i, costs,
                   esums, caps, spent, earnt, legends, bar_y, written, err>>

\* lines 196-263
Plot ==
    /\ pc = "plot"
    /\ IF PlotError # "none"
       THEN /\ Raise(PlotError)
            /\ UNCHANGED <<legends, bar_y>>
       ELSE /\ bar_y' = [i \in 1 .. 2 |-> GroupedAxes[i].ax]
            /\ legends' = Legends
            /\ pc' = "savefig"
            /\ UNCHANGED err
    /\ UNCHANGED <<input_files, fs, result_files, scenario_names, rf_i, costs,
                   esums, caps, spent, earnt, created, consumed, sto_sums,
                   written>>

\* lines 265-267: one pass of the loop over 'png', 'pdf'
SaveFig ==
    /\ pc = "savefig"
    /\ written' = Append(written, IF written = <<>> THEN "png" ELSE "pdf")
    /\ pc' = IF written = <<>> THEN "savefig" ELSE "report"
    /\ UNCHANGED <<input_files, fs, result_files, scenario_names, rf_i, costs,
                   esums, caps, spent, earnt, created, consumed, sto_sums,
                   legends, bar_y, err>>

\* lines 270-273
WriteReport ==
    /\ pc = "report"
    /\ written' = Append(written, "xlsx")
    /\ pc' = "done"
    /\ UNCHANGED <<input_files, fs, result_files, scenario_names, rf_i, costs,
                   esums, caps, spent, earnt, created, consumed, sto_sums,
                   legends, bar_y, err>>

Next ==
    \/ (DeriveNames /\ UNCHANGED <<legVars, barVars>>)
    \/ (ReorderBase /\ UNCHANGED <<legVars, barVars>>)
    \/ (ReadWorkbook /\ UNCHANGED <<legVars, barVars>>)
    \/ (Merge /\ UNCHANGED <<legVars, barVars>>)
    \/ (AnalyseCosts /\ UNCHANGED <<legVars, barVars>>)
    \/ (AnalyseEnergy /\ UNCHANGED <<legVars, barVars>>)
    \/ (SplitStorage /\ UNCHANGED <<legVars, barVars>>)
    \/ (RemoveCO2 /\ UNCHANGED <<legVars, barVars>>)
    \/ (Plot /\ UNCHANGED <<legVars, barVars>>)
    \/ (SaveFig /\ UNCHANGED <<legVars, barVars>>)
    \/ (WriteReport /\ UNCHANGED <<legVars, barVars>>)

Spec == Init /\ [][Next]_vars

---------------------------------------------------------------------------
(* deduplicate_legend on any handles and labels *)

LegendLabels == {Str_Fixed, Str_Fuel, Str_Battery}

SeqsUpTo(S, n) == UNION {[1 .. k -> S] : k \in 0 .. n}

InitLegend ==
    /\ handles \in SeqsUpTo(1 .. MaxHandle, MaxLegend)
    /\ labels \in SeqsUpTo(LegendLabels, MaxLegend)
    /\ legend_ret = NoLegend("pending")
    /\ IdleCompare /\ IdleBars

\* lines 42-60
CallDeduplicateLegend ==
    /\ legend_ret.err = "pending"
    /\ legend_ret' = DeduplicateLegend(handles, labels)
    /\ UNCHANGED <<handles, labels>>

NextLegend == CallDeduplicateLegend /\ UNCHANGED <<cmpVars, barVars>>

SpecLegend == InitLegend /\ [][NextLegend]_vars

---------------------------------------------------------------------------
(* group_hbar_plots on any axis *)

\* bar heights 0.5/Res, 1/Res, ... up to one row
BarHeights == {2 * k : k \in 1 .. 2 * Res}

InitBars ==
    /\ \E h \in BarHeights, ncols \in 0 .. MaxCols, nrows \in 0 .. MaxRows :
         ax = DrawnAxis(h, ncols, nrows)
    /\ group_size \in 1 .. MaxGroup
    /\ inner_sep \in {NoSep} \cup (0 .. Q)
    /\ hbar_ret = "pending"
    /\ IdleCompare /\ IdleLegend

\* lines 62-84
CallGroupHbarPlots ==
    /\ hbar_ret = "pending"
    /\ LET r == GroupHbarPlots(ax, group_size, inner_sep)
       IN /\ ax' = r.ax
          /\ hbar_ret' = r.err
    /\ UNCHANGED <<group_size, inner_sep>>

NextBars == CallGroupHbarPlots /\ UNCHANGED <<cmpVars, legVars>>

SpecBars == InitBars /\ [][NextBars]_vars

---------------------------------------------------------------------------
(* Properties of compare_scenarios: names and reading (under Spec) *)

\* the names of the scenarios as the caller listed them
NamesIn == ScenarioNames(input_files)

BaseCount == Cardinality({i \in DOMAIN NamesIn : NamesIn[i] = Str_base})

IsNotBase(name) == name # Str_base

\* the reordering of lines 112-117 is over
Reordered == pc \notin {"names", "reorder"}

\* the merged tables exist
Merged == pc \in {"costs", "energy", "storage", "co2", "plot", "savefig",
                  "report", "done"}

\* C1: with at most one name "base": if "base" is listed, after the
\* reordering it is the first name and the other names keep their input
\* order; if it is not listed, the names are in input order; the step raises
\* no error.
C1_BaseFirst ==
    (Reordered /\ BaseCount <= 1) =>
        /\ IF BaseCount = 1
           THEN /\ scenario_names[1] = Str_base
                /\ Tail(scenario_names) = SelectSeq(NamesIn, IsNotBase)
           ELSE scenario_names = NamesIn
        /\ (pc = "read" /\ rf_i = 1) => err = "none"

\* "base" was listed third, behind two other names, and has moved
C1_Witness ==
    /\ pc = "read" /\ rf_i = 1
    /\ Len(NamesIn) = 3 /\ BaseCount = 1 /\ NamesIn[3] = Str_base
    /\ NamesIn[1] # NamesIn[2]
    /\ scenario_names = <<NamesIn[3], NamesIn[1], NamesIn[2]>>

\* a workbook that can be read: the file, the three sheets, the column
\* 'Total' and the row 'Campus'
Sound(wb) ==
    /\ wb.exists
    /\ {"Costs", "Commodity sums", "Process caps"} \subseteq wb.sheets
    /\ "Total" \in wb.cap.cols
    /\ "Campus" \in wb.cap.sites

SomeBroken == \E i \in DOMAIN input_files : ~Sound(fs[input_files[i]])

\* C2: if reading any listed workbook fails, wherever it stands in the list,
\* the run ends with an error and no output file is ever written; an output
\* file is written only after every workbook was read and merged.
C2_NoPartialOutput ==
    /\ SomeBroken =>
         /\ written = <<>>
         /\ pc \in {"names", "reorder", "read", "aborted"}
         /\ pc = "aborted" => err \in {"IOError", "XLRDError", "KeyError"}
    /\ written # <<>> =>
         /\ rf_i = Len(result_files) + 1
         /\ Merged
         /\ \A i \in DOMAIN input_files : Sound(fs[input_files[i]])

\* the third workbook of the list is broken: two were read, then the run
\* was aborted without output
C2_Witness ==
    /\ pc = "aborted" /\ err = "KeyError"
    /\ Len(result_files) = 3 /\ rf_i = 3 /\ Len(costs) = 2
    /\ ~Sound(fs[result_files[3]])
    /\ written = <<>>

S_Files == {<<File_s_base, File_s_altA>>, <<File_s_altA, File_s_base>>}
Scenario_Files == {<<File_scenario_base, File_scenario_altA>>,
                   <<File_scenario_altA, File_scenario_base>>}

\* the scenarios that key the merged cost table, in order
CostKeys ==
    IF pc = "costs" THEN [i \in DOMAIN costs |-> costs[i].scen] ELSE costs.idx

\* C7 as stated: for "s_base.xlsx" and "s_altA.xlsx", in either order, the
\* names after the reordering are "base", "altA", and they key the merged
\* cost table in this order.
C7_Original ==
    (Reordered /\ input_files \in S_Files) =>
        /\ scenario_names = <<Str_base, Str_altA>>
        /\ Merged => CostKeys = <<Str_base, Str_altA>>

\* C7 amended: this holds for "scenario_base.xlsx" and "scenario_altA.xlsx"
\* (the prefix the code strips is "scenario "), where the base workbook is
\* also the one read first; for "s_base.xlsx" and "s_altA.xlsx" the names
\* are "s base" and "s altA" in input order.
C7_Names ==
    /\ (Reordered /\ input_files \in Scenario_Files) =>
         /\ scenario_names = <<Str_base, Str_altA>>
         /\ result_files = <<File_scenario_base, File_scenario_altA>>
         /\ Merged => CostKeys = <<Str_base, Str_altA>>
         /\ pc = "costs" =>
              \A c \in DOMAIN fs[File_scenario_base].cost :
                 costs[1].v[c] = fs[File_scenario_base].cost[c]
    /\ (Reordered /\ input_files \in S_Files) =>
         /\ scenario_names = [i \in 1 .. 2 |->
               IF input_files[i] = File_s_base THEN Str_s_base ELSE Str_s_altA]
         /\ result_files = input_files
         /\ Merged => CostKeys = scenario_names

\* base was listed second and keys the first row of the written cost table
C7_Witness ==
    /\ pc = "done"
    /\ input_files = <<File_scenario_altA, File_scenario_base>>
    /\ costs.idx = <<Str_base, Str_altA>>
    /\ written = <<"png", "pdf", "xlsx">>

---------------------------------------------------------------------------
(* Properties of compare_scenarios: the analysis (under Spec) *)

\* the views of lines 156-157 exist
CostsAnalysed == pc \in {"energy", "storage", "co2", "plot", "savefig",
                         "report", "done"}

\* the total of a cost type over the workbooks from position i on, as the
\* sheets list it (the values are whole numbers; an unlisted type adds 0)
RECURSIVE CostTotalFrom(_, _)
CostTotalFrom(c, i) ==
    IF i > Len(result_files) THEN 0
    ELSE LET sheet == fs[result_files[i]].cost
         IN (IF c \in DOMAIN sheet THEN sheet[c].n ELSE 0) + CostTotalFrom(c, i + 1)

CostTotal(c) == CostTotalFrom(c, 1)

CostTypes == {Str_Invest, Str_Revenue}

\* C3: a cost type is in spent iff its sum over all scenarios is > 0 and in
\* earnt iff the sum is < 0; none is in both, and one whose sum is exactly 0
\* is in neither.
C3_SignBuckets ==
    CostsAnalysed =>
        \A c \in CostTypes :
            /\ c \in SeqRange(spent.cols) <=> CostTotal(c) > 0
            /\ c \in SeqRange(earnt.cols) <=> CostTotal(c) < 0
            /\ ~(c \in SeqRange(spent.cols) /\ c \in SeqRange(earnt.cols))
            /\ CostTotal(c) = 0 =>
                 c \notin SeqRange(spent.cols) \cup SeqRange(earnt.cols)

\* Invest is spent, and Revenue, 1 in one scenario and -1 in the other, sums
\* to 0 and is in neither view
C3_Witness ==
    /\ CostsAnalysed
    /\ Str_Invest \in SeqRange(spent.cols)
    /\ Str_Revenue \in SeqRange(costs.cols)
    /\ \E i \in DOMAIN costs.idx : costs.val[i][Str_Revenue] = R(1)
    /\ CostTotal(Str_Revenue) = 0
    /\ Str_Revenue \notin SeqRange(spent.cols) \cup SeqRange(earnt.cols)

\* the views of lines 160-167 exist, with their CO2 rows
EnergyAnalysed == pc \in {"storage", "co2"}

\* the row of process pro in a 'Commodity sums' sheet
ProRow(sheet, pro) ==
    sheet.rows[CHOOSE k \in DOMAIN sheet.rows : sheet.rows[k].pro = pro]

\* the sum of the row of a process over the commodity columns from j on
RECURSIVE RowSumFrom(_, _, _)
RowSumFrom(sheet, pro, j) ==
    IF j > Len(sheet.cols) THEN R(0)
    ELSE RAdd(ProRow(sheet, pro).val[sheet.cols[j]], RowSumFrom(sheet, pro, j + 1))

\* the sum of a process over all commodities and all scenarios from i on, as
\* the workbooks hold it (no sign flipped, nothing scaled)
RECURSIVE RawSumFrom(_, _)
RawSumFrom(pro, i) ==
    IF i > Len(result_files) THEN R(0)
    ELSE RAdd(RowSumFrom(fs[result_files[i]].esum, pro, 1), RawSumFrom(pro, i + 1))

RawSum(pro) == RawSumFrom(pro, 1)

RAbs(a) == IF a.n < 0 THEN RNeg(a) ELSE a

\* C4 as stated: in the Created and the Consumed view a column is kept iff
\* the absolute value of its sum over all scenarios is > 0.1.
C4_Original ==
    EnergyAnalysed =>
        /\ Str_PV \in SeqRange(created.cols) <=> RLess(Threshold, RAbs(RawSum(Str_PV)))
        /\ Str_Chiller \in SeqRange(consumed.cols)
             <=> RLess(Threshold, RAbs(RawSum(Str_Chiller)))

\* C4 amended: a column is kept iff its sum over all scenarios, as the
\* workbooks hold it, is > 0.1 (in the Consumed view: iff its sign-flipped
\* sum is < -0.1); exactly 0.1 is excluded, 0.1001 is kept, and a negative
\* sum is excluded whatever its magnitude.
C4_Threshold ==
    EnergyAnalysed =>
        /\ Str_PV \in SeqRange(created.cols) <=> RLess(Threshold, RawSum(Str_PV))
        /\ Str_Chiller \in SeqRange(consumed.cols)
             <=> RLess(Threshold, RawSum(Str_Chiller))
        /\ Str_Chiller \in SeqRange(consumed.cols)
             <=> RLess(RNeg(RawSum(Str_Chiller)), RNeg(Threshold))
        /\ Str_Demand \notin SeqRange(consumed.cols)

\* PV sums to exactly 0.1001 and is kept, Chiller to exactly 0.1 and is not
C4_Witness ==
    /\ EnergyAnalysed
    /\ REq(RawSum(Str_PV), [n |-> 1001, d |-> 10000])
    /\ Str_PV \in SeqRange(created.cols)
    /\ REq(RawSum(Str_Chiller), [n |-> 1, d |-> 10])
    /\ Str_Chiller \notin SeqRange(consumed.cols)

\* C10 as stated: every column kept in the Consumed view has a positive sum.
C10_Original ==
    EnergyAnalysed =>
        \A p \in SeqRange(consumed.cols) : RLess(R(0), ColSum(consumed, p))

\* C10 amended: after sign flip, filtering and scaling (and before the CO2
\* rows are removed) every column kept in the Consumed view has a negative
\* sum, below -0.0001; the Created columns have a positive one, above 0.0001.
C10_ConsumedNegative ==
    EnergyAnalysed =>
        /\ \A p \in SeqRange(consumed.cols) :
              /\ RLess(ColSum(consumed, p), R(0))
              /\ RLess(ColSum(consumed, p), [n |-> 0 - 1, d |-> 10000])
        /\ \A p \in SeqRange(created.cols) :
              RLess([n |-> 1, d |-> 10000], ColSum(created, p))

\* a Consumed view that kept Chiller, whose cells are not all zero
C10_Witness ==
    /\ pc = "storage"
    /\ consumed.cols = <<Str_Chiller>>
    /\ \E i \in DOMAIN consumed.idx : consumed.val[i][Str_Chiller].n < 0

\* the view of lines 169-188 exists
StorageSplit == pc \in {"co2", "plot", "savefig", "report", "done"}
                  \/ (pc = "aborted" /\ err = "TypeError")

\* the retrieved storage of a commodity as workbook i holds it
Retrieved(i, com) ==
    ProRow(fs[result_files[i]].esum, Str_Retrieved).val[com \o Str_Campus]

\* cell is raw / 1000
IsScaled(cell, raw) == cell.d # 0 /\ cell.n * raw.d * 1000 = raw.n * cell.d

\* C9: after the storage split every "Elec" row has Reservoir = 0, every
\* "Heat" row has Battery = 0, and every other cell holds the retrieved
\* storage of its row's scenario and commodity, divided by 1000; until the
\* CO2 rows are removed there is one row for every scenario and commodity.
C9_StorageSplit ==
    StorageSplit =>
        /\ \A i \in DOMAIN sto_sums.idx :
             LET scen == sto_sums.idx[i][1]
                 com == sto_sums.idx[i][2]
             IN \A col \in {Str_Battery, Str_Reservoir} :
                  IF (com = Str_Elec /\ col = Str_Reservoir)
                       \/ (com = Str_Heat /\ col = Str_Battery)
                  THEN sto_sums.val[i][col] = R(0)
                  ELSE \E j \in DOMAIN result_files :
                         /\ scenario_names[j] = scen
                         /\ IsScaled(sto_sums.val[i][col], Retrieved(j, com))
        /\ pc = "co2" =>
             \A j \in DOMAIN result_files : \A com \in {Str_Elec, Str_Heat, Str_CO2} :
                \E i \in DOMAIN sto_sums.idx : sto_sums.idx[i] = <<scenario_names[j], com>>

\* every retrieved value is 500: the Elec rows hold 0.5 as Battery, the Heat
\* rows 0.5 as Reservoir, the CO2 rows 0.5 in both columns
C9_Witness ==
    /\ pc = "co2"
    /\ Len(sto_sums.idx) = 6
    /\ \A i \in DOMAIN sto_sums.idx :
         LET com == sto_sums.idx[i][2]
             half == [n |-> 500, d |-> 1000]
         IN /\ com = Str_Elec =>
                 sto_sums.val[i] = (Str_Battery :> half) @@ (Str_Reservoir :> R(0))
            /\ com = Str_Heat =>
                 sto_sums.val[i] = (Str_Battery :> R(0)) @@ (Str_Reservoir :> half)
            /\ com = Str_CO2 =>
                 sto_sums.val[i] = (Str_Battery :> half) @@ (Str_Reservoir :> half)

---------------------------------------------------------------------------
(* Properties of deduplicate_legend (under SpecLegend) *)

LegendCalled == legend_ret.err \notin {"idle", "pending"}

\* the first position of a label among the labels passed
FirstAt(lbl) ==
    CHOOSE i \in DOMAIN labels :
        labels[i] = lbl /\ \A j \in 1 .. i - 1 : labels[j] # lbl

\* C5: for equally long, non-empty handles and labels the labels returned
\* are the distinct labels passed, each once, in ascending order, and each
\* comes with the handle of its first occurrence.
C5_DedupSorted ==
    (LegendCalled /\ Len(handles) = Len(labels) /\ labels # <<>>) =>
        /\ legend_ret.err = "none"
        /\ SeqRange(legend_ret.labels) = SeqRange(labels)
        /\ \A i, j \in DOMAIN legend_ret.labels :
              i < j => StrLess(legend_ret.labels[i], legend_ret.labels[j])
        /\ DOMAIN legend_ret.handles = DOMAIN legend_ret.labels
        /\ \A k \in DOMAIN legend_ret.labels :
              legend_ret.handles[k] = handles[FirstAt(legend_ret.labels[k])]

\* "Fuel" twice with different handles and "Battery" after it: Battery comes
\* first and Fuel keeps handle 2, the larger one, of its first occurrence
C5_Witness ==
    /\ LegendCalled
    /\ labels = <<Str_Fuel, Str_Fuel, Str_Battery>>
    /\ handles = <<2, 1, 1>>
    /\ legend_ret = [err |-> "none", handles |-> <<1, 2>>,
                     labels |-> <<Str_Battery, Str_Fuel>>]

\* C6: called with no handles and no labels, deduplicate_legend returns two
\* empty lists and raises no error.
C6_EmptyLegend ==
    (LegendCalled /\ handles = <<>> /\ labels = <<>>) =>
        legend_ret = [err |-> "none", handles |-> <<>>, labels |-> <<>>]

---------------------------------------------------------------------------
(* Properties of group_hbar_plots (under SpecBars) *)

\* a call the claim covers: three rows a group, inner_sep in (0, 1] or
\* left to its default, at least one handle
Grouped3 ==
    /\ hbar_ret \notin {"idle", "pending"}
    /\ group_size = 3
    /\ inner_sep # 0
    /\ ax.patches # <<>>

\* twice the inner_sep in effect
Sep2 == IF inner_sep = NoSep THEN Q - ax.bar_height ELSE 2 * inner_sep

\* twice the offset of the group of row r (rows count from 0)
Offset2(r) == 6 * (r \div 3) * Q + 2 * Q - Sep2 - 3 * ax.bar_height

\* the rows of a group rise strictly and lie within
\* [group_offset, group_offset + 2 * (bar_height + inner_sep)]
RowsWithinGroup ==
    \A c \in DOMAIN ax.patches : \A r \in DOMAIN ax.patches[c] :
        LET y == ax.patches[c]
        IN /\ Offset2(r - 1) <= y[r]
           /\ y[r] <= Offset2(r - 1) + 2 * (2 * ax.bar_height + Sep2)
           /\ ((r - 1) % 3 # 0) => y[r - 1] < y[r]

\* the first row of a group lies above the last row of the group before
GroupsRise ==
    \A c \in DOMAIN ax.patches : \A r \in DOMAIN ax.patches[c] :
        (r > 1 /\ (r - 1) % 3 = 0) => ax.patches[c][r - 1] < ax.patches[c][r]

\* bar_height + inner_sep < 1.5
Below15 == 2 * ax.bar_height + Sep2 < 3 * Q

\* C8 as stated: for every bar_height and inner_sep in (0, 1] the rows of a
\* group rise within the group's range and the next group starts above the
\* last row of the group before; a partial last group raises no error.
C8_Original ==
    Grouped3 => (hbar_ret = "none" /\ RowsWithinGroup /\ GroupsRise)

\* C8 amended: the next group starts above the last row of the group before
\* iff bar_height + inner_sep < 1.5, which the default inner_sep always
\* meets; the rest holds as stated.
C8_Layout ==
    Grouped3 =>
        /\ hbar_ret = "none"
        /\ RowsWithinGroup
        /\ inner_sep = NoSep => Below15
        /\ Len(ax.patches[1]) > 3 => (GroupsRise <=> Below15)

\* five rows (a full group and a partial one) on two handles, bar_height 0.5
\* and inner_sep 0.75: the rows are at -0.5, 0.75, 2 and 2.5, 3.75
C8_Witness ==
    /\ Grouped3 /\ hbar_ret = "none"
    /\ ax.bar_height * 2 = Q /\ inner_sep * 4 = 3 * Q
    /\ Len(ax.patches) = 2 /\ Len(ax.patches[2]) = 5
    /\ \A r \in 1 .. 5 :
          2 * ax.patches[2][r] =
              12 * ((r - 1) \div 3) * Q + 5 * ((r - 1) % 3) * Q - 2 * Q

===========================================================================
